---- MODULE Spec2Model ----
(***************************************************************************)
(* prometheus-tapo-exporter: the exporter's main() as a state machine.     *)
(*                                                                         *)
(* Two goroutines and one observer:                                        *)
(*   - main: LoadConfig, validateDevices, the startup login loop, the      *)
(*     gauge registration, `go func()`, http.ListenAndServe;               *)
(*   - the poll goroutine: for every plug a fresh login, the three retried *)
(*     fetches (GetDeviceInfo, GetDeviceUsage, GetEnergyUsage), then the   *)
(*     gauge Set calls, one at a time; a sleep between two cycles;         *)
(*   - a scrape (promhttp.Handler) that reads the registry at any moment.  *)
(*                                                                         *)
(* The tapo client library and the devices are the environment: a          *)
(* handshake or fetch returns one of the outcomes the library can return.  *)
(***************************************************************************)
EXTENDS Integers, Sequences, FiniteSets, TLC

(***************************************************************************)
(* Bounds of the model.                                                    *)
(***************************************************************************)
\* longest configured device list (duplicates allowed)
MaxCfgLen == 3
\* iterations of the poll loop's `range plugs` explored; a cycle is explored
\* only if every plug of it can be
MaxPolls == 2
\* failed handshakes and failed fetch attempts the environment may inject into
\* the poll loop
MaxFaults == 3

(***************************************************************************)
(* Values.                                                                 *)
(***************************************************************************)
\* Go's nil (a nil error, a nil pointer)
Nil == [nil |-> TRUE]

\* the device addresses of the README's example configuration
Addrs == {"10.0.0.10", "10.0.0.11"}

\* netip.Addr.String(): the address in its textual form
AddrString(a) == a

\* A Go string whose characters the code inspects (the model identifier, the
\* output of FormatInt) is a sequence of one-character strings; every other Go
\* string is a TLA+ string.

Upper == <<"A","B","C","D","E","F","G","H","I","J","K","L","M",
           "N","O","P","Q","R","S","T","U","V","W","X","Y","Z">>
Lower == <<"a","b","c","d","e","f","g","h","i","j","k","l","m",
           "n","o","p","q","r","s","t","u","v","w","x","y","z">>

\* strings.ToLower on one character
LowerChar(c) ==
    IF \E k \in 1..Len(Upper) : Upper[k] = c
    THEN Lower[CHOOSE k \in 1..Len(Upper) : Upper[k] = c]
    ELSE c

\* strings.ToLower
ToLower(s) == [k \in 1..Len(s) |-> LowerChar(s[k])]

modelsWithPowerInformation ==
    << <<"P","1","1","0">>, <<"P","1","1","5">>, <<"P","1","2","5","M">> >>

\* no capability check: the energy usage is always tried
hasPowerInformationAlways(model) == TRUE

\* the capability check without lowering: `i.Model == m`
hasPowerInformationExact(model) ==
    \E k \in 1..Len(modelsWithPowerInformation) :
        model = modelsWithPowerInformation[k]

\* the capability check of the poll loop: the flag is set when the lowered
\* model equals the lowered form of some entry of the list
hasPowerInformationOf(model) ==
    \E k \in 1..Len(modelsWithPowerInformation) :
        ToLower(model) = ToLower(modelsWithPowerInformation[k])

Digits == <<"0","1","2","3","4","5","6","7","8","9">>

RECURSIVE FormatNat(_)
FormatNat(n) ==
    IF n < 10 THEN <<Digits[n + 1]>>
    ELSE FormatNat(n \div 10) \o <<Digits[(n % 10) + 1]>>

\* strconv.FormatInt(int64(n), 10)
FormatInt(n) == IF n < 0 THEN <<"-">> \o FormatNat(0 - n) ELSE FormatNat(n)

\* strconv.FormatBool
FormatBool(b) == IF b THEN "true" ELSE "false"

(***************************************************************************)
(* The environment: what the tapo library returns.                         *)
(***************************************************************************)
\* tapo.TapoError(1003): the device speaks the KLAP protocol
KlapError == [tapo |-> TRUE, code |-> 1003, text |-> "tapo error 1003"]
\* a tapo.TapoError with another code
AuthError == [tapo |-> TRUE, code |-> -1501, text |-> "tapo error -1501"]
\* an error that is no tapo.TapoError
NetError == [tapo |-> FALSE, code |-> 0, text |-> "i/o timeout"]

\* error.Error()
ErrorText(x) == x.text

\* what plug.Handshake returns: nil or an error
HandshakeResults == {Nil, KlapError, AuthError, NetError}

\* the errors a fetch returns
FetchErrors == {NetError}

Model_P110 == <<"P","1","1","0">>
Model_p125m == <<"p","1","2","5","m">>
Model_P100 == <<"P","1","0","0">>
Model_UnknownXYZ == <<"U","n","k","n","o","w","n","X","Y","Z">>

\* tapo.DeviceInfo as the device at address a reports it; v selects the
\* fields that change from one poll to the next
DeviceInfoOf(a, v) ==
    [ DeviceID |-> "id-" \o a,
      DecodedNickname |-> IF v = 1 THEN "plug" ELSE "renamed",
      Model |-> IF a = "10.0.0.10"
                THEN (IF v = 1 THEN Model_P110 ELSE Model_p125m)
                ELSE (IF v = 1 THEN Model_P100 ELSE Model_UnknownXYZ),
      MAC |-> "mac-" \o a,
      OEMID |-> "oem",
      FWVersion |-> IF v = 1 THEN "1.0.7" ELSE "1.3.0",
      HWVersion |-> "1.0",
      Type |-> "SMART.TAPOPLUG",
      HWID |-> "hw",
      FWID |-> "fw",
      IP |-> a,
      TimeDiff |-> 0 - 60,
      DecodedSSID |-> "ssid",
      RSSI |-> 0 - 47,
      SignalLevel |-> 3,
      Latitude |-> 0,
      Longitude |-> 0,
      Lang |-> "en_US",
      Avatar |-> "plug",
      Region |-> "Europe",
      Specs |-> "",
      HasSetLocationInfo |-> FALSE,
      DeviceON |-> (v = 1),
      OnTime |-> IF v = 1 THEN 120 ELSE 0,
      OverHeated |-> (v # 1),
      PowerProtectionStatus |-> "normal",
      Location |-> "" ]

\* The states a device can be in when it is polled: which DeviceInfo it
\* reports and which counters it reports. A device keeps its state during one
\* iteration of the poll loop and may change it between two iterations.
DeviceStates(a) ==
    IF a = "10.0.0.10"
    THEN {[info |-> 1, meter |-> 1], [info |-> 1, meter |-> 2],
          [info |-> 2, meter |-> 2]}
    ELSE {[info |-> 1, meter |-> 1], [info |-> 2, meter |-> 2]}

\* tapo.DeviceUsage
DeviceUsageOf(v) ==
    [ TimeUsage  |-> [Today |-> 10 * v + 1, Past7 |-> 10 * v + 2, Past30 |-> 10 * v + 3],
      PowerUsage |-> [Today |-> 10 * v + 4, Past7 |-> 10 * v + 5, Past30 |-> 10 * v + 6],
      SavedPower |-> [Today |-> 10 * v + 7, Past7 |-> 10 * v + 8, Past30 |-> 10 * v + 9] ]

\* tapo.EnergyUsage; ElectricityCharge[0..2] of the Go array are 1..3 here
EnergyUsageOf(v) ==
    [ TodayRuntime |-> 100 * v + 1,
      MonthRuntime |-> 100 * v + 2,
      TodayEnergy  |-> 100 * v + 3,
      MonthEnergy  |-> 100 * v + 4,
      ElectricityCharge |-> <<100 * v + 5, 100 * v + 6, 100 * v + 7>>,
      CurrentPower |-> 100 * v + 8 ]

\* what a successful fetch of operation op returns from the device at a in
\* state d
FetchValue(a, op, d) ==
    CASE op = "info"   -> DeviceInfoOf(a, d.info)
      [] op = "usage"  -> DeviceUsageOf(d.meter)
      [] op = "energy" -> EnergyUsageOf(d.meter)

Ops == {"info", "usage", "energy"}

(***************************************************************************)
(* The metrics registry: every GaugeVec maps label tuples to values.       *)
(***************************************************************************)
InfoUsageGauges ==
    << "deviceInfoGauge", "deviceOnGauge", "deviceOverheatedGauge",
       "timeUsageTodayGauge", "timeUsagePast7Gauge", "timeUsagePast30Gauge",
       "powerUsageTodayGauge", "powerUsagePast7Gauge", "powerUsagePast30Gauge",
       "savedPowerTodayGauge", "savedPowerPast7Gauge", "savedPowerPast30Gauge" >>

EnergyGauges ==
    << "todayRuntimeGauge", "monthRuntimeGauge", "todayEnergyGauge",
       "monthEnergyGauge", "electricityCharge0Gauge", "electricityCharge1Gauge",
       "electricityCharge2Gauge", "currentPowerGauge" >>

Range(s) == {s[k] : k \in 1..Len(s)}

InfoUsageSet == Range(InfoUsageGauges)
EnergySet == Range(EnergyGauges)

\* the gauges main() registers
GaugeNames == InfoUsageSet \cup EnergySet \cup {"deviceRequestFailedGauge"}

EmptyVec == [x \in {} |-> 0]

\* GaugeVec.Reset() before WithLabelValues(lv...).Set(v): the other children
\* of the vector are dropped
GaugeResetSet(reg, g, lv, v) == [reg EXCEPT ![g] = [x \in {lv} |-> v]]

\* GaugeVec.WithLabelValues(lv...).Add(v)
GaugeAdd(reg, g, lv, v) ==
    [reg EXCEPT ![g] =
        [x \in (DOMAIN @) \cup {lv} |->
            IF x = lv THEN (IF lv \in DOMAIN @ THEN @[lv] + v ELSE v) ELSE @[x]]]

\* GaugeVec.WithLabelValues(lv...).Set(v)
GaugeSet(reg, g, lv, v) ==
    [reg EXCEPT ![g] =
        [x \in (DOMAIN @) \cup {lv} |-> IF x = lv THEN v ELSE @[x]]]

\* GaugeVec.WithLabelValues(lv...).Add(2)
GaugeIncByTwo(reg, g, lv) ==
    [reg EXCEPT ![g] =
        [x \in (DOMAIN @) \cup {lv} |->
            IF x = lv THEN (IF lv \in DOMAIN @ THEN @[lv] + 2 ELSE 2) ELSE @[x]]]

\* GaugeVec.WithLabelValues(lv...).Inc(): a new child starts at 0
GaugeInc(reg, g, lv) ==
    [reg EXCEPT ![g] =
        [x \in (DOMAIN @) \cup {lv} |->
            IF x = lv THEN (IF lv \in DOMAIN @ THEN @[lv] + 1 ELSE 1) ELSE @[x]]]

\* labels := []string{...} of the poll loop
LabelsOf(i) == <<i.DeviceID, i.DecodedNickname, i.Model, i.MAC, i.OEMID>>

\* allLabels := append(labels, ...)
AllLabelsOf(i) ==
    LabelsOf(i) \o
    << i.FWVersion, i.HWVersion, i.Type, i.HWID, i.FWID, i.IP,
       FormatInt(i.TimeDiff), i.DecodedSSID, FormatInt(i.RSSI),
       FormatInt(i.SignalLevel), FormatInt(i.Latitude), FormatInt(i.Longitude),
       i.Lang, i.Avatar, i.Region, i.Specs, FormatBool(i.HasSetLocationInfo),
       FormatBool(i.DeviceON), FormatInt(i.OnTime), FormatBool(i.OverHeated),
       i.PowerProtectionStatus, i.Location >>

\* the value of a bool gauge with Set(1) in both branches
BoolGaugeAlwaysOne(b) == IF b THEN 1 ELSE 1

\* the value of a bool gauge: Set(1) in the if branch, Set(0) in the else branch
BoolGaugeValue(b) == IF b THEN 1 ELSE 0

SetCall(g, lv, v) == [g |-> g, lv |-> lv, v |-> v]

\* the Set calls on the info and usage gauges, with Past30 and Past7 of the
\* time usage set on each other's gauge
InfoUsageWritesSwapped(i, u) ==
    << SetCall("deviceInfoGauge", AllLabelsOf(i), 1),
       SetCall("deviceOnGauge", LabelsOf(i), BoolGaugeValue(i.DeviceON)),
       SetCall("deviceOverheatedGauge", LabelsOf(i), BoolGaugeValue(i.OverHeated)),
       SetCall("timeUsageTodayGauge", LabelsOf(i), u.TimeUsage.Today),
       SetCall("timeUsagePast7Gauge", LabelsOf(i), u.TimeUsage.Past30),
       SetCall("timeUsagePast30Gauge", LabelsOf(i), u.TimeUsage.Past7),
       SetCall("powerUsageTodayGauge", LabelsOf(i), u.PowerUsage.Today),
       SetCall("powerUsagePast7Gauge", LabelsOf(i), u.PowerUsage.Past7),
       SetCall("powerUsagePast30Gauge", LabelsOf(i), u.PowerUsage.Past30),
       SetCall("savedPowerTodayGauge", LabelsOf(i), u.SavedPower.Today),
       SetCall("savedPowerPast7Gauge", LabelsOf(i), u.SavedPower.Past7),
       SetCall("savedPowerPast30Gauge", LabelsOf(i), u.SavedPower.Past30) >>

\* the Set calls on the info and usage gauges, in program order
InfoUsageWrites(i, u) ==
    << SetCall("deviceInfoGauge", AllLabelsOf(i), 1),
       SetCall("deviceOnGauge", LabelsOf(i), BoolGaugeValue(i.DeviceON)),
       SetCall("deviceOverheatedGauge", LabelsOf(i), BoolGaugeValue(i.OverHeated)),
       SetCall("timeUsageTodayGauge", LabelsOf(i), u.TimeUsage.Today),
       SetCall("timeUsagePast7Gauge", LabelsOf(i), u.TimeUsage.Past7),
       SetCall("timeUsagePast30Gauge", LabelsOf(i), u.TimeUsage.Past30),
       SetCall("powerUsageTodayGauge", LabelsOf(i), u.PowerUsage.Today),
       SetCall("powerUsagePast7Gauge", LabelsOf(i), u.PowerUsage.Past7),
       SetCall("powerUsagePast30Gauge", LabelsOf(i), u.PowerUsage.Past30),
       SetCall("savedPowerTodayGauge", LabelsOf(i), u.SavedPower.Today),
       SetCall("savedPowerPast7Gauge", LabelsOf(i), u.SavedPower.Past7),
       SetCall("savedPowerPast30Gauge", LabelsOf(i), u.SavedPower.Past30) >>

\* the Set calls inside `if e != nil`, in program order
EnergyWrites(i, e) ==
    << SetCall("todayRuntimeGauge", LabelsOf(i), e.TodayRuntime),
       SetCall("monthRuntimeGauge", LabelsOf(i), e.MonthRuntime),
       SetCall("todayEnergyGauge", LabelsOf(i), e.TodayEnergy),
       SetCall("monthEnergyGauge", LabelsOf(i), e.MonthEnergy),
       SetCall("electricityCharge0Gauge", LabelsOf(i), e.ElectricityCharge[1]),
       SetCall("electricityCharge1Gauge", LabelsOf(i), e.ElectricityCharge[2]),
       SetCall("electricityCharge2Gauge", LabelsOf(i), e.ElectricityCharge[3]),
       SetCall("currentPowerGauge", LabelsOf(i), e.CurrentPower) >>

\* the update with the device-info gauge set to the device's on/off state
WritesOfInfoFromState(i, u, e) ==
    <<SetCall("deviceInfoGauge", AllLabelsOf(i), BoolGaugeValue(i.DeviceON))>>
        \o Tail(InfoUsageWrites(i, u))
        \o (IF e # Nil THEN EnergyWrites(i, e) ELSE <<>>)

\* the update without its last usage Set call
WritesOfShort(i, u, e) ==
    SubSeq(InfoUsageWrites(i, u), 1, Len(InfoUsageWrites(i, u)) - 1)
        \o (IF e # Nil THEN EnergyWrites(i, e) ELSE <<>>)

\* every Set call of one device's update, in program order
WritesOf(i, u, e) ==
    InfoUsageWrites(i, u) \o (IF e # Nil THEN EnergyWrites(i, e) ELSE <<>>)

(***************************************************************************)
(* State.                                                                  *)
(***************************************************************************)
VARIABLES
    \* ---- main goroutine
    mpc,              \* where main() is: "load", "validate", "login",
                      \* "register", "go", "serve", "listening"
    exited,           \* "no", or how the process ended: "fatal" (log.Fatalf)
    exitCause,        \* the step whose log.Fatalf ended the process
    stopOnKlapError,  \* *flagStopOnKlapError
    devices,          \* main's devices slice
    cfgDevices,       \* config.Devices as loaded, kept until the gauges are
                      \* registered
    plugs,            \* main's plugs slice: the addresses of its plugs
    allIdx,           \* the startup login loop's position in allPlugs
    \* ---- poll goroutine
    pc,               \* "idle", "login", "info", "usage", "energy", their
                      \* "..._sleep", "write", "sleeping"
    idx,              \* the position of `range plugs`
    session,          \* whether the loop's plug holds a session
    attempt,          \* the retry loop's attempt
    err,              \* main's err, which the closure assigns
    i, u, e,          \* the loop body's i, u and e
    wstep,            \* the next Set call of the update
    cycle,            \* the number of the cycle in progress
    polls,            \* the iterations of `range plugs` begun so far
    \* ---- the registry and its reader
    gauges,           \* gauge name -> label tuple -> value
    scraped,          \* what the latest scrape returned, until the
                      \* registry is next written
    \* ---- history, for the properties only
    startupRes,       \* address -> outcomes of its startup handshakes, kept
                      \* until the gauges are registered
    loginRes,         \* address -> outcome of its handshake in this cycle
    calls,            \* operation -> outcomes of its attempts in the current
                      \* iteration
    incsAtLogin,      \* the failure counter's total for the plug when the
                      \* current iteration began
    incsAtStart,      \* the failure counter's total for the plug when its
                      \* current fetch began
    written,          \* address -> gauges Set for it in this cycle
    before,           \* the registry when the current update began
    faults,           \* failures injected so far
    dev               \* the state of the device of the current iteration

mainVars == <<mpc, stopOnKlapError, devices, cfgDevices, plugs, allIdx>>
exitVars == <<exited, exitCause>>
loopVars == <<pc, idx, session, attempt, err, i, u, e, wstep, cycle, polls>>
histVars == <<startupRes, loginRes, calls, incsAtLogin, incsAtStart, written, before, faults, dev>>
vars == <<mainVars, exitVars, loopVars, gauges, scraped, histVars>>

NoCalls == [op \in Ops |-> <<>>]

\* sequences over S of length 0..n
RECURSIVE SeqsUpTo(_, _)
SeqsUpTo(S, n) ==
    IF n = 0 THEN {<<>>}
    ELSE LET shorter == SeqsUpTo(S, n - 1)
         IN shorter \cup {Append(s, x) : s \in shorter, x \in S}

\* the orders in which `for d := range tmap` can visit the keys
RECURSIVE Orderings(_)
Orderings(S) ==
    IF S = {} THEN {<<>>}
    ELSE UNION {{<<x>> \o rest : rest \in Orderings(S \ {x})} : x \in S}

\* validateDevices that logs a duplicate and keeps it
validateDevicesKeepsDuplicates(ds) ==
    IF Len(ds) = 0 THEN {[err |-> "device list is empty", list |-> <<>>]}
    ELSE {[err |-> "", list |-> ds]}

\* validateDevices: the error, or the unique devices in map order
validateDevices(ds) ==
    IF Len(ds) = 0 THEN {[err |-> "device list is empty", list |-> <<>>]}
    ELSE LET tmap == Range(ds)
         IN IF Cardinality(tmap) = 0
            THEN {[err |-> "got zero valid devices", list |-> <<>>]}
            ELSE {[err |-> "", list |-> l] : l \in Orderings(tmap)}

\* plugLogin without `if te == 1003`: every tapo.TapoError is let through
plugLoginAnyTapoError(handshake, stopOnKlap) ==
    IF handshake # Nil
    THEN IF ~stopOnKlap /\ handshake.tapo
         THEN Nil
         ELSE handshake
    ELSE Nil

\* the closure plugLogin, given what plug.Handshake returned: the error it
\* returns, or nil
plugLogin(handshake, stopOnKlap) ==
    IF handshake # Nil
    THEN IF ~stopOnKlap /\ handshake.tapo /\ handshake.code = 1003
         THEN Nil
         ELSE handshake
    ELSE Nil

\* the environment may still inject a failure
MayFail == faults < MaxFaults

\* log.Printf in place of log.Fatalf: the message is logged and the process
\* goes on
FatalfLogsOnly(cause) ==
    /\ exited' = exited
    /\ exitCause' = cause

\* log.Fatalf: the message is logged and os.Exit(1) ends every goroutine
Fatalf(cause) ==
    /\ exited' = "fatal"
    /\ exitCause' = cause

Running == exited = "no"

Init ==
    /\ mpc = "load"
    /\ exited = "no"
    /\ exitCause = ""
    /\ stopOnKlapError \in BOOLEAN
    /\ devices = <<>>
    /\ cfgDevices = <<>>
    /\ plugs = <<>>
    /\ allIdx = 1
    /\ pc = "idle"
    /\ idx = 1
    /\ session = FALSE
    /\ attempt = 1
    /\ err = Nil
    /\ i = Nil
    /\ u = Nil
    /\ e = Nil
    /\ wstep = 1
    /\ cycle = 0
    /\ polls = 0
    /\ gauges = [g \in GaugeNames |-> EmptyVec]
    /\ scraped = Nil
    /\ startupRes = [a \in Addrs |-> <<>>]
    /\ loginRes = [a \in Addrs |-> <<>>]
    /\ calls = NoCalls
    /\ incsAtLogin = 0
    /\ incsAtStart = 0
    /\ written = [a \in Addrs |-> {}]
    /\ before = Nil
    /\ faults = 0
    /\ dev = Nil

(***************************************************************************)
(* main(), up to the start of the poll goroutine.                          *)
(***************************************************************************)
\* LoadConfig and the devices it yields, or its error
LoadConfigStep ==
    /\ Running /\ mpc = "load"
    /\ \/ /\ \E ds \in SeqsUpTo(Addrs, MaxCfgLen) :
                /\ cfgDevices' = ds
                /\ devices' = ds
          /\ mpc' = "validate"
          /\ UNCHANGED exitVars
       \/ /\ Fatalf("LoadConfig")
          /\ UNCHANGED <<mpc, devices, cfgDevices>>
    /\ UNCHANGED <<stopOnKlapError, plugs, allIdx, loopVars, gauges, scraped,
                   histVars>>

\* devices, err = validateDevices(devices)
ValidateStep ==
    /\ Running /\ mpc = "validate"
    /\ \E r \in validateDevices(devices) :
          IF r.err # ""
          THEN /\ Fatalf("validateDevices")
               /\ UNCHANGED <<mpc, devices>>
          ELSE /\ devices' = r.list
               /\ mpc' = "login"
               /\ UNCHANGED exitVars
    /\ UNCHANGED <<stopOnKlapError, cfgDevices, plugs, allIdx, loopVars, gauges,
                   scraped, histVars>>

\* one iteration of a startup loop that appends the plug only if plugLogin
\* returned nil: `if err != nil { log.Printf(...); continue }`
StartupLoginDropsFailed ==
    /\ Running /\ mpc = "login"
    /\ allIdx <= Len(devices)
    /\ \E h \in HandshakeResults :
          /\ startupRes' = [startupRes EXCEPT ![devices[allIdx]] = Append(@, h)]
          /\ plugs' = IF plugLogin(h, stopOnKlapError) = Nil
                      THEN Append(plugs, devices[allIdx])
                      ELSE plugs
    /\ allIdx' = allIdx + 1
    /\ mpc' = IF allIdx = Len(devices) THEN "register" ELSE "login"
    /\ UNCHANGED <<stopOnKlapError, devices, cfgDevices, exitVars, loopVars, gauges, scraped,
                   loginRes, calls, incsAtLogin, incsAtStart, written, before, faults,
                   dev>>

\* one iteration of `for _, plug := range allPlugs`: the plug is appended to
\* plugs whatever plugLogin returned
StartupLogin ==
    /\ Running /\ mpc = "login"
    /\ allIdx <= Len(devices)
    /\ \E h \in HandshakeResults :
          startupRes' = [startupRes EXCEPT ![devices[allIdx]] = Append(@, h)]
    /\ plugs' = Append(plugs, devices[allIdx])
    /\ allIdx' = allIdx + 1
    /\ mpc' = IF allIdx = Len(devices) THEN "register" ELSE "login"
    /\ UNCHANGED <<stopOnKlapError, devices, cfgDevices, exitVars, loopVars, gauges, scraped,
                   loginRes, calls, incsAtLogin, incsAtStart, written, before, faults,
                   dev>>

\* the prometheus.Register calls: all succeed, or one fails
RegisterStep ==
    /\ Running /\ mpc = "register"
    /\ \/ /\ mpc' = "go"
          /\ cfgDevices' = <<>>
          /\ UNCHANGED exitVars
       \/ /\ Fatalf("Register")
          /\ UNCHANGED <<mpc, cfgDevices>>
    /\ startupRes' = [a \in Addrs |-> <<>>]
    /\ UNCHANGED <<stopOnKlapError, devices, plugs, allIdx, loopVars, gauges,
                   scraped, loginRes, calls, incsAtLogin, incsAtStart, written, before,
                   faults, dev>>

\* go func() { ... }()
StartPoll ==
    /\ Running /\ mpc = "go"
    /\ mpc' = "serve"
    /\ pc' = "login"
    /\ idx' = 1
    /\ cycle' = 1
    /\ UNCHANGED <<stopOnKlapError, devices, cfgDevices, plugs, allIdx, exitVars, session,
                   attempt, err, i, u, e, wstep, polls, gauges, scraped, histVars>>

\* http.ListenAndServe: it listens, or returns an error to log.Fatal
ListenAndServe ==
    /\ Running /\ mpc = "serve"
    /\ \/ /\ mpc' = "listening"
          /\ UNCHANGED exitVars
       \/ /\ Fatalf("ListenAndServe")
          /\ UNCHANGED mpc
    /\ UNCHANGED <<stopOnKlapError, devices, cfgDevices, plugs, allIdx, loopVars,
                   gauges, scraped, histVars>>

(***************************************************************************)
(* The poll goroutine.                                                     *)
(***************************************************************************)
\* the loop bound `attempt <= maxAttempts + 1`
maxAttemptsPlusOne == 3 + 1

\* const maxAttempts = 3
maxAttempts == 3

\* the sum of f over the keys in S
RECURSIVE SumOver(_, _)
SumOver(f, S) ==
    IF S = {} THEN 0
    ELSE LET k == CHOOSE x \in S : TRUE
         IN f[k] + SumOver(f, S \ {k})

\* the failure counter's total over the error texts of address a
FailTotal(reg, a) ==
    LET vec == reg["deviceRequestFailedGauge"]
    IN SumOver(vec, {k \in DOMAIN vec : k[1] = AddrString(a)})

\* the plug of the current iteration
CurAddr == plugs[idx]

\* the end of an iteration in a loop without `plug = tapo.NewPlug(...)`: the
\* plug, and with it its session, is used again
NextPlugKeepsSession ==
    /\ idx' = idx + 1
    /\ pc' = IF idx < Len(plugs) THEN "login" ELSE "sleeping"
    /\ attempt' = 1
    /\ i' = Nil
    /\ u' = Nil
    /\ e' = Nil
    /\ wstep' = 1
    /\ dev' = Nil
    /\ calls' = [op \in {"info", "usage", "energy"} |-> <<>>]
    /\ UNCHANGED session

\* the end of an iteration in a goroutine without the outer `for {`: it
\* returns after the last plug
NextPlugReturns ==
    /\ idx' = idx + 1
    /\ pc' = IF idx < Len(plugs) THEN "login" ELSE "returned"
    /\ session' = FALSE
    /\ attempt' = 1
    /\ i' = Nil
    /\ u' = Nil
    /\ e' = Nil
    /\ wstep' = 1
    /\ dev' = Nil
    /\ calls' = [op \in {"info", "usage", "energy"} |-> <<>>]

\* the end of an iteration of a loop whose `var e *tapo.EnergyUsage` is
\* declared outside of `for _, plug := range plugs`: e keeps its value
NextPlugKeepsEnergy ==
    /\ idx' = idx + 1
    /\ pc' = IF idx < Len(plugs) THEN "login" ELSE "sleeping"
    /\ session' = FALSE
    /\ attempt' = 1
    /\ i' = Nil
    /\ u' = Nil
    /\ e' = e
    /\ wstep' = 1
    /\ dev' = Nil
    /\ calls' = NoCalls

\* the end of one iteration of `for _, plug := range plugs` (a `continue`, or
\* the end of the body): the next plug, or the sleep after the last one; the
\* body's i, u and e go out of scope
NextPlug ==
    /\ idx' = idx + 1
    /\ pc' = IF idx < Len(plugs) THEN "login" ELSE "sleeping"
    /\ session' = FALSE
    /\ attempt' = 1
    /\ i' = Nil
    /\ u' = Nil
    /\ e' = Nil
    /\ wstep' = 1
    /\ dev' = Nil
    /\ calls' = NoCalls

\* log.Fatalf in the poll goroutine: nothing of the loop moves any more
FatalInLoop(cause) ==
    /\ Fatalf(cause)
    /\ UNCHANGED <<pc, idx, session, attempt, i, u, e, wstep, dev>>

\* the attempt just made is recorded
Record(op, outcome) == [calls EXCEPT ![op] = Append(@, outcome)]

\* `if err != nil { log.Fatalf("GetDeviceInfo failed after 3 attempts...") }`
InfoExhausted ==
    /\ calls' = Record("info", "fail")
    /\ FatalInLoop("GetDeviceInfo")

\* `if err != nil { log.Fatalf("GetDeviceUsage failed after 3 attempts...") }`
UsageExhausted ==
    /\ calls' = Record("usage", "fail")
    /\ FatalInLoop("GetDeviceUsage")

\* `if err != nil { log.Printf(...); continue }`: the device is skipped
EnergyExhaustedSkips ==
    /\ NextPlug
    /\ UNCHANGED exitVars

\* `if err != nil { log.Fatalf("GetEnergyUsage failed after 3 attempts...") }`
EnergyExhausted ==
    /\ calls' = Record("energy", "fail")
    /\ FatalInLoop("GetEnergyUsage")

\* deviceRequestFailedGauge.WithLabelValues(addr, err.Error()).Set(1)
countRequestFailedSet(reg, a, x) ==
    GaugeSet(reg, "deviceRequestFailedGauge", <<AddrString(a), ErrorText(x)>>, 1)

\* the failure is counted and every device series is emptied with
\* GaugeVec.Reset()
countRequestFailedResets(reg, a, x) ==
    [g \in GaugeNames |->
        IF g \in InfoUsageSet \cup EnergySet
        THEN EmptyVec
        ELSE GaugeInc(reg, "deviceRequestFailedGauge",
                      <<AddrString(a), ErrorText(x)>>)[g]]

\* deviceRequestFailedGauge.WithLabelValues(addr, err.Error()).Inc()
countRequestFailed(reg, a, x) ==
    GaugeInc(reg, "deviceRequestFailedGauge", <<AddrString(a), ErrorText(x)>>)

\* plug = tapo.NewPlug(...); plugLogin(plug, ...): on an error the failure
\* counter is incremented and the loop continues with the next plug
PollLogin ==
    /\ Running /\ pc = "login"
    /\ polls' = polls + 1
    /\ incsAtLogin' = FailTotal(gauges, CurAddr)
    /\ \E h \in HandshakeResults :
          /\ h # Nil => MayFail
          /\ faults' = IF h # Nil THEN faults + 1 ELSE faults
          /\ loginRes' = [loginRes EXCEPT ![CurAddr] = Append(@, h)]
          /\ LET r == plugLogin(h, stopOnKlapError)
             IN IF r # Nil
                THEN /\ gauges' = countRequestFailed(gauges, CurAddr, r)
                     /\ scraped' = Nil
                     /\ NextPlug
                     /\ UNCHANGED incsAtStart
                ELSE /\ session' = (h = Nil)
                     /\ pc' = "info"
                     /\ attempt' = 1
                     /\ incsAtStart' = FailTotal(gauges, CurAddr)
                     /\ dev' \in DeviceStates(CurAddr)
                     /\ UNCHANGED <<gauges, scraped, idx, i, u, e, wstep, calls>>
    /\ UNCHANGED <<mainVars, exitVars, err, cycle, startupRes, written, before>>

\* the statements after a fetch's retry loop ended with err == nil
AfterFetch(op, val) ==
    CASE op = "info" ->
            /\ pc' = "usage"
            /\ UNCHANGED <<wstep, before>>
      [] op = "usage" ->
            \* hasPowerInformation, from the model the device reported
            IF hasPowerInformationOf(i.Model)
            THEN /\ pc' = "energy"
                 /\ UNCHANGED <<wstep, before>>
            ELSE /\ pc' = "write"
                 /\ wstep' = 1
                 /\ before' = gauges
      [] op = "energy" ->
            /\ pc' = "write"
            /\ wstep' = 1
            /\ before' = gauges

\* `if attempt <= maxAttempts { time.Sleep(*flagRetryInterval) }`: a sleep
\* after every failed attempt
sleepsAfterEveryFailure(n) == n <= maxAttempts

\* `if attempt < maxAttempts { time.Sleep(*flagRetryInterval) }`
sleepsBeforeRetry(n) == n < maxAttempts

\* one attempt of a retry loop: the fetch, and what the loop does with its
\* result
FetchAttempt(op) ==
    /\ Running /\ pc = op
    /\ \/ \* err == nil: break
          LET val == FetchValue(CurAddr, op, dev)
          IN /\ err' = Nil
             /\ i' = IF op = "info" THEN val ELSE i
             /\ u' = IF op = "usage" THEN val ELSE u
             /\ e' = IF op = "energy" THEN val ELSE e
             /\ calls' = Record(op, "ok")
             /\ attempt' = 1
             /\ incsAtStart' = FailTotal(gauges, CurAddr)
             /\ AfterFetch(op, val)
             /\ UNCHANGED <<exitVars, idx, session, gauges, scraped, faults, dev>>
       \/ \* err != nil: count the failure, sleep unless it was the last attempt
          \E x \in FetchErrors :
             /\ MayFail
             /\ faults' = faults + 1
             /\ err' = x
             /\ gauges' = countRequestFailed(gauges, CurAddr, x)
             /\ scraped' = Nil
             /\ IF sleepsBeforeRetry(attempt)
                THEN /\ pc' = op \o "_sleep"
                     /\ calls' = Record(op, "fail")
                     /\ UNCHANGED <<exitVars, idx, session, attempt, i, u, e, wstep,
                                    dev>>
                ELSE CASE op = "info" -> InfoExhausted
                       [] op = "usage" -> UsageExhausted
                       [] op = "energy" -> EnergyExhausted
             /\ UNCHANGED <<incsAtStart, before>>
    /\ UNCHANGED <<mainVars, cycle, polls, startupRes, loginRes, incsAtLogin,
                   written>>

GetDeviceInfo == FetchAttempt("info")
GetDeviceUsage == FetchAttempt("usage")
GetEnergyUsage == FetchAttempt("energy")

\* time.Sleep(*flagRetryInterval), then attempt++
RetrySleep ==
    /\ Running
    /\ \E op \in Ops :
          /\ pc = op \o "_sleep"
          /\ pc' = op
    /\ attempt' = attempt + 1
    /\ UNCHANGED <<mainVars, exitVars, idx, session, err, i, u, e, wstep, cycle,
                   polls, gauges, scraped, histVars>>

\* the update handed to another goroutine after its first Set call: the loop
\* goes on to the next plug without waiting for the rest
WriteStepDetached ==
    /\ Running /\ pc = "write"
    /\ LET w == WritesOf(i, u, e)[wstep]
       IN /\ gauges' = GaugeSet(gauges, w.g, w.lv, w.v)
          /\ written' = [written EXCEPT ![CurAddr] = @ \cup {w.g}]
    /\ NextPlug
    /\ before' = Nil
    /\ scraped' = Nil
    /\ UNCHANGED <<mainVars, exitVars, err, cycle, polls, startupRes, loginRes,
                   incsAtLogin, incsAtStart, faults>>

\* the next Set call of the update; after the last one the iteration ends
WriteStep ==
    /\ Running /\ pc = "write"
    /\ LET ws == WritesOf(i, u, e)
           w == ws[wstep]
       IN /\ gauges' = GaugeSet(gauges, w.g, w.lv, w.v)
          /\ written' = [written EXCEPT ![CurAddr] = @ \cup {w.g}]
          /\ IF wstep < Len(ws)
             THEN /\ wstep' = wstep + 1
                  /\ UNCHANGED <<pc, idx, session, attempt, i, u, e, before, dev,
                                 calls>>
             ELSE /\ NextPlug
                  /\ before' = Nil
    /\ scraped' = Nil
    /\ UNCHANGED <<mainVars, exitVars, err, cycle, polls, startupRes, loginRes,
                   incsAtLogin, incsAtStart, faults>>

\* time.Sleep(*flagSleepInterval) returns in a goroutine without the outer
\* `for {`: the goroutine returns
WakeReturns ==
    /\ Running /\ pc = "sleeping"
    /\ polls + Len(plugs) <= MaxPolls
    /\ pc' = "returned"
    /\ UNCHANGED <<mainVars, exitVars, idx, session, attempt, err, i, u, e, wstep,
                   cycle, polls, gauges, scraped, histVars>>

\* time.Sleep(*flagSleepInterval) returns and `for {` starts the next cycle
Wake ==
    /\ Running /\ pc = "sleeping"
    /\ polls + Len(plugs) <= MaxPolls
    /\ cycle' = cycle + 1
    /\ pc' = "login"
    /\ idx' = 1
    /\ loginRes' = [a \in Addrs |-> <<>>]
    /\ written' = [a \in Addrs |-> {}]
    /\ UNCHANGED <<mainVars, exitVars, session, attempt, err, i, u, e, wstep,
                   polls, gauges, scraped, startupRes, calls, incsAtLogin,
                   incsAtStart, before, faults, dev>>

\* a scrape handler that resets every gauge vector after reading it
ScrapeClears ==
    /\ Running /\ mpc = "listening"
    /\ scraped' = gauges
    /\ gauges' = [g \in GaugeNames |-> EmptyVec]
    /\ UNCHANGED <<mainVars, exitVars, loopVars, histVars>>

\* promhttp.Handler serves a scrape: it reads every gauge
Scrape ==
    /\ Running /\ mpc = "listening"
    /\ scraped' = gauges
    /\ UNCHANGED <<mainVars, exitVars, loopVars, gauges, histVars>>

Next ==
    \/ LoadConfigStep
    \/ ValidateStep
    \/ StartupLogin
    \/ RegisterStep
    \/ StartPoll
    \/ ListenAndServe
    \/ PollLogin
    \/ GetDeviceInfo
    \/ GetDeviceUsage
    \/ GetEnergyUsage
    \/ RetrySleep
    \/ WriteStep
    \/ Wake
    \/ Scrape

Spec == Init /\ [][Next]_vars

\* a step of the poll goroutine
PollStep ==
    \/ PollLogin
    \/ GetDeviceInfo
    \/ GetDeviceUsage
    \/ GetEnergyUsage
    \/ RetrySleep
    \/ WriteStep
    \/ Wake

\* The poll goroutine keeps running while the process lives: the scheduler
\* runs it, every call of the tapo client returns (with a value or an error)
\* and every time.Sleep returns.
FairSpec == Spec /\ WF_vars(PollStep)

(***************************************************************************)
(* Properties.                                                             *)
(***************************************************************************)
Last(s) == s[Len(s)]

\* the number of failed attempts in a fetch's record
Fails(s) == Cardinality({k \in 1..Len(s) : s[k] = "fail"})

\* the poll loop is inside the body of an iteration, after its login
InIteration ==
    pc \in {"info", "info_sleep", "usage", "usage_sleep", "energy",
            "energy_sleep", "write"}

\* the process was ended by a log.Fatalf of the poll loop
FetchCauses == {"GetDeviceInfo", "GetDeviceUsage", "GetEnergyUsage"}

\* this step is the third failed attempt of the fetch op
ThirdFailure(op) ==
    /\ pc = op
    /\ calls[op] = <<"fail", "fail">>
    /\ faults' = faults + 1

\* this step ends the current iteration and leaves the process running
SkipsDevice ==
    /\ exited' = "no"
    /\ idx' = idx + 1
    /\ pc' \in {"login", "sleeping"}

\* C1: when the device-info fetch or the usage fetch of a device fails on all
\* three attempts, the process keeps running, none of the device's info, usage
\* or energy series is written in that cycle, and the loop goes on to the next
\* device.
C1_InfoUsageExhaustionSkipsDevice ==
    [][\A op \in {"info", "usage"} :
          ThirdFailure(op) => (SkipsDevice /\ written'[CurAddr] = {})]_vars

\* C2: without -k, a device whose login in the poll loop failed with code
\* 1003 is left out of the cycle: the loop never is in one of its fetches or
\* in its update.
C2_SoftSkipExcludesDevice ==
    \A a \in Addrs :
        (~stopOnKlapError /\ KlapError \in Range(loginRes[a]))
            => ~(InIteration /\ CurAddr = a)

\* C3: without -k, a login that failed with code 1003 does not end the
\* process and leaves every series of the device, the failure counter
\* included, unwritten in that cycle.
C3_SoftSkipWritesNothing ==
    \A a \in Addrs :
        (~stopOnKlapError /\ loginRes[a] # <<>> /\ Last(loginRes[a]) = KlapError)
            => /\ written[a] = {}
               /\ (InIteration /\ CurAddr = a)
                     => /\ FailTotal(gauges, a) = incsAtLogin
                        /\ exitCause \notin FetchCauses

\* C4: with -k, a login that failed with code 1003 stops the exporter, at
\* the startup login as well as in the poll loop.
C4_StrictKlapErrorStops ==
    \A a \in Addrs :
        (stopOnKlapError /\ (KlapError \in Range(startupRes[a])
                             \/ KlapError \in Range(loginRes[a])))
            => exited # "no"

\* C5: the third failed attempt of the energy fetch ends the process at once
\* with log.Fatalf: the device is not skipped, none of its info, usage and
\* energy series is written, and no step is taken after the process ended,
\* so no further device is polled.
C5_EnergyExhaustionTerminates ==
    [][/\ exited = "no"
       /\ ThirdFailure("energy")
             => /\ exited' = "fatal"
                /\ exitCause' = "GetEnergyUsage"
                /\ written'[CurAddr] = {}
                /\ UNCHANGED <<pc, idx, polls, loginRes>>]_vars

C5_Witness ==
    /\ exited = "fatal"
    /\ exitCause = "GetEnergyUsage"
    /\ calls["energy"] = <<"fail", "fail", "fail">>
    /\ idx < Len(plugs)
    /\ written[CurAddr] = {}

\* C6: outside a device's own update, the info and usage series written for
\* it in the cycle are all twelve or none: no iteration ends with only a part
\* of them written.
C6_InfoUsageAllOrNone ==
    \A a \in Addrs :
        \/ pc = "write" /\ CurAddr = a
        \/ written[a] \cap InfoUsageSet = {}
        \/ InfoUsageSet \subseteq written[a]

C6_Witness ==
    /\ pc = "sleeping"
    /\ \E a, b \in Addrs :
          /\ InfoUsageSet \subseteq written[a]
          /\ loginRes[b] # <<>>
          /\ written[b] = {}

\* the Set call w changes the value its series held before the update
ChangedBy(w) == w.lv \in DOMAIN before[w.g] /\ before[w.g][w.lv] # w.v

\* the scrape returned, for the series of w, the value of this cycle
ScrapeSeesNew(w) == w.lv \in DOMAIN scraped[w.g] /\ scraped[w.g][w.lv] = w.v

\* the scrape returned, for the series of w, what it held before the update
ScrapeSeesOld(w) ==
    IF w.lv \in DOMAIN before[w.g]
    THEN w.lv \in DOMAIN scraped[w.g] /\ scraped[w.g][w.lv] = before[w.g][w.lv]
    ELSE w.lv \notin DOMAIN scraped[w.g]

\* a scrape made during the update returned this cycle's value for one series
\* of the device's label tuple and the previous one for another
MixObserved ==
    /\ pc = "write"
    /\ scraped # Nil
    /\ LET ws == WritesOf(i, u, e)
       IN \E k1, k2 \in 1..Len(ws) :
             /\ ChangedBy(ws[k1]) /\ ScrapeSeesNew(ws[k1])
             /\ ChangedBy(ws[k2]) /\ ScrapeSeesOld(ws[k2])

\* C7, as stated: a scrape that interleaves with a device's update never
\* returns a mix of this cycle's and the previous cycle's values among the
\* series of the device's label tuple.
C7_ScrapeNeverSeesMix == ~MixObserved

\* C7, amended: a scrape that interleaves with a device's update returns, for
\* each series of the update, this cycle's value if its Set call has run and
\* what the series held before the update otherwise.
C7_ScrapeSeesEachSeriesOldOrNew ==
    (pc = "write" /\ scraped # Nil)
        => LET ws == WritesOf(i, u, e)
           IN \A k \in 1..Len(ws) :
                 IF k < wstep THEN ScrapeSeesNew(ws[k]) ELSE ScrapeSeesOld(ws[k])

C7_Witness == MixObserved /\ cycle = 2

\* C8: the failure counter of the device's address has grown by exactly the
\* number of failed attempts, for the fetch in progress and for the iteration
\* as a whole; a fetch that succeeded after failures did not end the process
\* and the update follows only fetches that succeeded.
C8_OneIncrementPerFailedAttempt ==
    InIteration
        => /\ FailTotal(gauges, CurAddr) - incsAtLogin
                 = Fails(calls["info"]) + Fails(calls["usage"])
                       + Fails(calls["energy"])
           /\ \A op \in Ops :
                 /\ pc \in {op, op \o "_sleep"}
                       => FailTotal(gauges, CurAddr) - incsAtStart
                              = Fails(calls[op])
                 /\ (exited = "fatal" /\ exitCause \in FetchCauses /\ pc = op)
                       => Fails(calls[op]) = 3
                 /\ pc = "write"
                       => (calls[op] = <<>> \/ Last(calls[op]) = "ok")

C8_Witness ==
    /\ pc = "write"
    /\ wstep > 1
    /\ calls["usage"] = <<"fail", "fail", "ok">>
    /\ FailTotal(gauges, CurAddr) - incsAtLogin = 2

\* C9: in one cycle a device is polled once, and each of its fetches is
\* called at most three times and never again after a call that succeeded.
C9_AtMostThreeCalls ==
    /\ \A a \in Addrs : Len(loginRes[a]) <= 1
    /\ \A op \in Ops :
          /\ Len(calls[op]) <= 3
          /\ \A k \in 1..(Len(calls[op]) - 1) : calls[op][k] = "fail"

C9_Witness ==
    /\ pc = "usage"
    /\ calls["info"] = <<"fail", "fail", "ok">>

\* two characters are equal, ignoring case
EqualFoldChar(c, d) ==
    c = d \/ \E k \in 1..Len(Upper) : {c, d} = {Upper[k], Lower[k]}

\* two strings are equal, ignoring case
EqualFold(s, t) ==
    Len(s) = Len(t) /\ \A k \in 1..Len(s) : EqualFoldChar(s[k], t[k])

\* the model is P110, P115 or P125M, ignoring case
OnAllowList(model) ==
    \E m \in {<<"P","1","1","0">>, <<"P","1","1","5">>, <<"P","1","2","5","M">>} :
        EqualFold(model, m)

\* C10: once the login, the device-info fetch and the usage fetch of a device
\* succeeded, the energy fetch is attempted if and only if the model is on the
\* allow-list, ignoring case; for any other model there is no energy fetch
\* and no error, and the info and usage series are written.
C10_EnergyFetchIffOnAllowList ==
    (/\ InIteration /\ session
     /\ calls["info"] # <<>> /\ Last(calls["info"]) = "ok"
     /\ calls["usage"] # <<>> /\ Last(calls["usage"]) = "ok")
        => IF OnAllowList(i.Model)
           THEN pc \in {"energy", "energy_sleep"} \/ calls["energy"] # <<>>
           ELSE /\ calls["energy"] = <<>>
                /\ pc = "write"
                /\ err = Nil /\ e = Nil
                /\ exitCause \notin FetchCauses
                /\ written[CurAddr] = {InfoUsageGauges[k] : k \in 1..(wstep - 1)}

C10_Witness ==
    /\ pc = "write" /\ session
    /\ i.Model = Model_UnknownXYZ
    /\ wstep > 1
    /\ \E lv \in DOMAIN gauges["currentPowerGauge"] : lv[3] = Model_p125m

\* the handshake result h is a login failure that is not let through: any
\* error other than code 1003, or code 1003 with -k
NotSoftSkipped(h) ==
    /\ h # Nil
    /\ stopOnKlapError \/ ~(h.tapo /\ h.code = 1003)

MainCauses == {"LoadConfig", "validateDevices", "Register", "ListenAndServe"}

\* a cycle is in progress
Polling == pc = "login" \/ InIteration

C14_ValidateDevicesDeduplicates ==
    /\ mpc \in {"login", "register"}
          => /\ cfgDevices # <<>>
             /\ Range(devices) = Range(cfgDevices)
             /\ Len(devices) = Cardinality(Range(cfgDevices))
    /\ exitCause = "validateDevices"
          => /\ cfgDevices = <<>>
             /\ plugs = <<>> /\ pc = "idle" /\ polls = 0
             /\ \A a \in Addrs : startupRes[a] = <<>> /\ loginRes[a] = <<>>

C14_Witness ==
    /\ mpc = "login" /\ allIdx = 1
    /\ Len(cfgDevices) = 3
    /\ Len(devices) = 2

\* C15: in a cycle every device gets exactly one handshake, made on a plug
\* that holds no session from an earlier iteration, cycle or the startup;
\* the session a fetch uses is the one this handshake opened.
C15_OneFreshLoginPerCycle ==
    /\ \A a \in Addrs : Len(loginRes[a]) <= 1
    /\ (pc = "login" \/ InIteration \/ pc = "sleeping")
          => \A k \in 1..Len(plugs) :
                Len(loginRes[plugs[k]]) =
                    IF k < idx \/ (k = idx /\ InIteration) THEN 1 ELSE 0
    /\ pc = "login" => ~session
    /\ InIteration => (session <=> loginRes[CurAddr] = <<Nil>>)

C15_Witness ==
    /\ cycle = 2 /\ pc = "info" /\ session
    /\ loginRes[CurAddr] = <<Nil>>
    /\ gauges["deviceInfoGauge"] # EmptyVec

\* the processing of the device at address a in this cycle is over and left
\* nothing half done
Finished(a) ==
    \/ written[a] = {}
    \/ written[a] = InfoUsageSet
    \/ written[a] = InfoUsageSet \cup EnergySet

\* C16: the devices of a cycle are processed one after the other: a device
\* later in the list has no login, fetch or write before the processing of
\* every device before it has ended, and when a login starts nothing of an
\* earlier device (fetch, retry sleep, write) is pending.
C16_DevicesProcessedSequentially ==
    /\ \A k \in 1..Len(plugs) :
          /\ k > idx => (loginRes[plugs[k]] = <<>> /\ written[plugs[k]] = {})
          /\ k < idx => (loginRes[plugs[k]] # <<>> /\ Finished(plugs[k]))
    /\ pc = "login"
          => /\ loginRes[CurAddr] = <<>> /\ written[CurAddr] = {}
             /\ calls = NoCalls /\ attempt = 1 /\ wstep = 1
             /\ i = Nil /\ u = Nil /\ e = Nil

C16_Witness ==
    /\ Len(plugs) = 2 /\ idx = 2
    /\ pc = "usage_sleep"
    /\ written[plugs[1]] = InfoUsageSet \cup EnergySet

\* the gauges that hold what the devices reported
DeviceGauges == InfoUsageSet \cup EnergySet

\* C17: no step removes a label tuple from a series, and a tuple of a device
\* series changes its value only in a Set call of an update made for that
\* very tuple: a tuple the device no longer reports keeps its last value.
C17_LabelTuplesNeverShrink ==
    [][\A g \in GaugeNames :
          /\ DOMAIN gauges[g] \subseteq DOMAIN gauges'[g]
          /\ g \in DeviceGauges
                => \A lv \in DOMAIN gauges[g] :
                      gauges'[g][lv] # gauges[g][lv]
                         => /\ pc = "write"
                            /\ lv \in {LabelsOf(i), AllLabelsOf(i)}]_vars

C17_Witness ==
    /\ exited = "no"
    /\ \E lv1, lv2 \in DOMAIN gauges["timeUsageTodayGauge"] :
          /\ lv1[1] = lv2[1]
          /\ lv1 # lv2
          /\ gauges["timeUsageTodayGauge"][lv1] # gauges["timeUsageTodayGauge"][lv2]

\* what each usage series is to hold after an update from the snapshot uu
ExpectedUsage(uu) ==
    [ timeUsageTodayGauge |-> uu.TimeUsage.Today,
      timeUsagePast7Gauge |-> uu.TimeUsage.Past7,
      timeUsagePast30Gauge |-> uu.TimeUsage.Past30,
      powerUsageTodayGauge |-> uu.PowerUsage.Today,
      powerUsagePast7Gauge |-> uu.PowerUsage.Past7,
      powerUsagePast30Gauge |-> uu.PowerUsage.Past30,
      savedPowerTodayGauge |-> uu.SavedPower.Today,
      savedPowerPast7Gauge |-> uu.SavedPower.Past7,
      savedPowerPast30Gauge |-> uu.SavedPower.Past30 ]

\* what each energy series is to hold after an update from the snapshot ee
ExpectedEnergy(ee) ==
    [ todayRuntimeGauge |-> ee.TodayRuntime,
      monthRuntimeGauge |-> ee.MonthRuntime,
      todayEnergyGauge |-> ee.TodayEnergy,
      monthEnergyGauge |-> ee.MonthEnergy,
      electricityCharge0Gauge |-> ee.ElectricityCharge[1],
      electricityCharge1Gauge |-> ee.ElectricityCharge[2],
      electricityCharge2Gauge |-> ee.ElectricityCharge[3],
      currentPowerGauge |-> ee.CurrentPower ]

\* the short label tuple of the device info ii
ShortTuple(ii) == <<ii.DeviceID, ii.DecodedNickname, ii.Model, ii.MAC, ii.OEMID>>

\* this step ends the update of the current device
UpdateEnds == pc = "write" /\ pc' # "write"

\* C18: when the update of a device ends, every usage series, and every
\* energy series if the energy was fetched, holds at the device's short label
\* tuple exactly the value fetched in this cycle, whatever it held before.
C18_SnapshotReplacesOld ==
    [][UpdateEnds
          => /\ \A g \in DOMAIN ExpectedUsage(u) :
                   /\ ShortTuple(i) \in DOMAIN gauges'[g]
                   /\ gauges'[g][ShortTuple(i)] = ExpectedUsage(u)[g]
             /\ e # Nil
                   => \A g \in DOMAIN ExpectedEnergy(e) :
                         /\ ShortTuple(i) \in DOMAIN gauges'[g]
                         /\ gauges'[g][ShortTuple(i)] = ExpectedEnergy(e)[g]]_vars

C18_Witness ==
    /\ pc = "write" /\ e # Nil
    /\ wstep = Len(WritesOf(i, u, e))
    /\ before["timeUsagePast7Gauge"] # EmptyVec
    /\ ShortTuple(i) \in DOMAIN before["timeUsagePast7Gauge"]
    /\ before["timeUsagePast7Gauge"][ShortTuple(i)] = 12
    /\ gauges["timeUsagePast7Gauge"][ShortTuple(i)] = 22

\* C19: an energy series is written for a device only during its update, if
\* its model is on the allow-list and its energy fetch of this cycle
\* succeeded; no energy series holds a label tuple whose model is not on the
\* allow-list.
C19_EnergySeriesOnlyForCapable ==
    /\ [][\A a \in Addrs :
             ~((written'[a] \cap EnergySet) \subseteq written[a])
                => /\ pc = "write" /\ a = CurAddr
                   /\ OnAllowList(i.Model)
                   /\ calls["energy"] # <<>> /\ Last(calls["energy"]) = "ok"]_vars
    /\ [](\A g \in EnergySet :
             \A lv \in DOMAIN gauges[g] : OnAllowList(lv[3]))

C19_Witness ==
    /\ pc = "sleeping"
    /\ \E a, b \in Addrs :
          /\ written[a] = InfoUsageSet \cup EnergySet
          /\ written[b] = InfoUsageSet

\* 1 for true and 0 for false
OneOrZero(b) == IF b THEN 1 ELSE 0

\* C20: when the update of a device ends, the device-on gauge at its short
\* label tuple is 1 if the device reported on and 0 if it reported off, and
\* the overheated gauge likewise; neither series ever holds another value.
C20_BoolGaugesZeroOrOne ==
    /\ [][UpdateEnds
             => /\ gauges'["deviceOnGauge"][ShortTuple(i)] = OneOrZero(i.DeviceON)
                /\ gauges'["deviceOverheatedGauge"][ShortTuple(i)]
                      = OneOrZero(i.OverHeated)]_vars
    /\ [](\A g \in {"deviceOnGauge", "deviceOverheatedGauge"} :
             \A lv \in DOMAIN gauges[g] : gauges[g][lv] \in {0, 1})

C20_Witness ==
    /\ pc \in {"login", "sleeping"}
    /\ \E lv1, lv2 \in DOMAIN gauges["deviceOnGauge"] :
          /\ gauges["deviceOnGauge"][lv1] = 1
          /\ gauges["deviceOverheatedGauge"][lv1] = 0
          /\ gauges["deviceOnGauge"][lv2] = 0
          /\ gauges["deviceOverheatedGauge"][lv2] = 1

\* C21: every label tuple of the device-info series holds the value 1.
C21_DeviceInfoIsOne ==
    \A lv \in DOMAIN gauges["deviceInfoGauge"] :
        gauges["deviceInfoGauge"][lv] = 1

C21_Witness ==
    /\ exited = "no"
    /\ \E lv1, lv2 \in DOMAIN gauges["deviceInfoGauge"] :
          /\ lv1 # lv2
          /\ lv1[23] = "false"
          /\ lv2[23] = "true"

StartupCauses == {"LoadConfig", "validateDevices", "Register"}

\* C23: a failure of LoadConfig, of validateDevices or of a registration
\* ends the process with log.Fatalf (exit status 1) before the poll goroutine
\* is started: there is no login, fetch or write of the poll loop, the HTTP
\* server is never started, and an ended process takes no further step.
C23_StartupFailureTerminates ==
    /\ [](exitCause \in StartupCauses
             => /\ exited = "fatal"
                /\ mpc \in {"load", "validate", "register"}
                /\ pc = "idle" /\ cycle = 0 /\ polls = 0
                /\ \A a \in Addrs : loginRes[a] = <<>> /\ written[a] = {}
                /\ \A g \in GaugeNames : gauges[g] = EmptyVec
                /\ scraped = Nil)
    /\ [][exited = "no"]_vars

C23_Witness ==
    /\ exited = "fatal"
    /\ exitCause = "Register"
    /\ Len(plugs) = 2

\* the fetch op of the current iteration ended with a value
Succeeded(op) == calls[op] # <<>> /\ Last(calls[op]) = "ok"

\* the fetch op of the current iteration was started
Started(op) == calls[op] # <<>> \/ pc \in {op, op \o "_sleep"}

\* the fetches and the update of an iteration follow each other in the order
\* device-info, usage, energy, update, each after the success of the one
\* before it
FetchesOrderedAndGated ==
    /\ Started("usage") => Succeeded("info")
    /\ Started("energy") => Succeeded("usage")
    /\ pc = "write"
          => /\ Succeeded("info") /\ Succeeded("usage")
             /\ calls["energy"] # <<>> => Succeeded("energy")
    /\ written[CurAddr] \cap DeviceGauges # {} /\ InIteration => pc = "write"

\* the part of the order that follows the login
FetchStepsGated == InIteration => FetchesOrderedAndGated

\* C24: in the iteration of a device the steps come in the order login,
\* device-info, usage, energy (if any), update, and a step is started only
\* after the one before it succeeded: a fetch only after the handshake of the
\* iteration succeeded, the usage fetch only after device-info returned a
\* value, the energy fetch only after usage did, the update only after every
\* fetch made did.
C24_StepsOrderedAndGated ==
    /\ InIteration => Last(loginRes[CurAddr]) = Nil
    /\ FetchStepsGated

\* what the device of the current iteration answered to the fetch op, if the
\* fetch succeeded
OwnValue(op) ==
    IF Succeeded(op) THEN FetchValue(CurAddr, op, dev) ELSE Nil

\* the state of the current iteration is a function of the answers of its own
\* device: an iteration starts with nothing fetched; i, u and e hold what the
\* device itself answered in this iteration; the number of the attempt counts
\* the device's own failures; the energy is fetched iff the model the device
\* itself reported is on the allow-list; the Set calls made so far wrote the
\* values the device itself answered
OwnResponsesOnly ==
    /\ (pc = "login" /\ exited = "no")
          => /\ i = Nil /\ u = Nil /\ e = Nil
             /\ calls = NoCalls /\ attempt = 1 /\ wstep = 1
    /\ InIteration
          => /\ i = OwnValue("info")
             /\ u = OwnValue("usage")
             /\ e = OwnValue("energy")
             /\ (exited = "no" /\ pc \in Ops) => attempt = Fails(calls[pc]) + 1
             /\ Started("energy")
                   <=> (Succeeded("usage") /\ hasPowerInformationOf(i.Model))
             /\ pc = "write"
                   => \A k \in 1..(wstep - 1) :
                         LET w == WritesOf(OwnValue("info"), OwnValue("usage"),
                                           OwnValue("energy"))[k]
                         IN /\ w.lv \in DOMAIN gauges[w.g]
                            /\ gauges[w.g][w.lv] = w.v

TuplesOf(reg, g, a) == {lv \in DOMAIN reg[g] : lv[1] = "id-" \o a}

\* the device at a was skipped in the current cycle: its login failed and the
\* loop went on with `continue`
SkippedInCycle(a) ==
    /\ loginRes[a] # <<>>
    /\ NotSoftSkipped(Last(loginRes[a]))

\* C26: from the step that skips a device because its login failed to the end
\* of that cycle, no step changes or removes a value of an info, usage or
\* energy series of that device; a scrape made in that time returns these
\* values, the ones of the device's last update.
C26_SkipLeavesSeriesUnchanged ==
    /\ [][\A a \in Addrs :
             SkippedInCycle(a)'
                => \A g \in DeviceGauges :
                      \A lv \in TuplesOf(gauges, g, a) :
                         /\ lv \in DOMAIN gauges'[g]
                         /\ gauges'[g][lv] = gauges[g][lv]]_vars
    /\ [](\A a \in Addrs :
             (SkippedInCycle(a) /\ scraped # Nil)
                => \A g \in DeviceGauges :
                      \A lv \in TuplesOf(gauges, g, a) :
                         /\ lv \in DOMAIN scraped[g]
                         /\ scraped[g][lv] = gauges[g][lv])

C26_Witness ==
    /\ exited = "no"
    /\ pc = "sleeping" /\ cycle = 2
    /\ Len(plugs) = 1
    /\ SkippedInCycle(plugs[1])
    /\ scraped # Nil
    /\ TuplesOf(scraped, "currentPowerGauge", plugs[1]) # {}
    /\ TuplesOf(scraped, "deviceInfoGauge", plugs[1]) # {}

\* the poll loop is in the sleep between two attempts of the fetch op
RetrySleeping(op) == pc = op \o "_sleep"

\* this step is an attempt of the fetch op with the outcome o
Attempts(op, o) == pc = op /\ calls'[op] = Append(calls[op], o)

\* C27: the loop sleeps for the retry interval after a failed attempt if and
\* only if that attempt was not the third one: a failed first or second
\* attempt goes into the sleep, and the sleep is followed by the next
\* attempt; a failed third attempt goes to log.Fatalf without a sleep; a
\* successful attempt is followed by no sleep; so a fetch sleeps at most
\* twice.
C27_SleepIffNotLastAttempt ==
    /\ [][\A op \in Ops :
             /\ (Attempts(op, "fail") /\ Len(calls[op]) < 2)
                   => (RetrySleeping(op)' /\ exited' = "no")
             /\ (Attempts(op, "fail") /\ Len(calls[op]) >= 2)
                   => (~RetrySleeping(op)' /\ exited' = "fatal")
             /\ Attempts(op, "ok") => \A o \in Ops : ~RetrySleeping(o)'
             /\ (~RetrySleeping(op) /\ RetrySleeping(op)')
                   => Attempts(op, "fail")
             /\ (RetrySleeping(op) /\ pc' # pc)
                   => (pc' = op /\ attempt' = attempt + 1 /\ calls' = calls)]_vars
    /\ [](\A op \in Ops :
             RetrySleeping(op)
                => /\ Last(calls[op]) = "fail"
                   /\ Fails(calls[op]) = Len(calls[op])
                   /\ Len(calls[op]) \in {1, 2}
                   /\ attempt = Len(calls[op]))

C27_Witness ==
    /\ RetrySleeping("energy")
    /\ calls["energy"] = <<"fail", "fail">>
    /\ exited = "no"

\* len(allPlugs)-len(plugs), the number printed as "ignored"
Ignored == Len(devices) - Len(plugs)

\* the devices whose login the poll loop attempted in the current cycle
PolledInCycle == {a \in Addrs : loginRes[a] # <<>>}

FailSum(reg) ==
    SumOver(reg["deviceRequestFailedGauge"], DOMAIN reg["deviceRequestFailedGauge"])

\* this step is a login of the poll loop whose plugLogin returns an error
PollLoginFails ==
    /\ pc = "login"
    /\ \E h \in HandshakeResults :
          /\ loginRes'[CurAddr] = Append(loginRes[CurAddr], h)
          /\ plugLogin(h, stopOnKlapError) # Nil

\* this step is a login of the poll loop whose handshake fails with code 1003
\* and is let through
PollLoginSoftSkips ==
    /\ pc = "login"
    /\ loginRes'[CurAddr] = Append(loginRes[CurAddr], KlapError)
    /\ plugLogin(KlapError, stopOnKlapError) = Nil

\* this step is a failed attempt of a fetch
FetchFails == \E op \in Ops : Attempts(op, "fail")

\* C29: no step lowers the failure counter of a label tuple or removes the
\* tuple; the counter's total over all tuples is 0 until the poll loop
\* starts, and a step adds 1 to it if it is a login of the poll loop that
\* returns an error or a failed attempt of a fetch, and leaves it unchanged
\* otherwise: a startup login and a soft-skipped login add nothing. So the
\* total is the number of these logins and attempts since the process
\* started: all injected failures with -k, fewer without.
C29_FailureCounterCountsFailures ==
    /\ [][LET vec == gauges["deviceRequestFailedGauge"]
              vec2 == gauges'["deviceRequestFailedGauge"]
          IN /\ \A lv \in DOMAIN vec :
                   lv \in DOMAIN vec2 /\ vec2[lv] >= vec[lv]
             /\ FailSum(gauges') =
                   FailSum(gauges) + (IF PollLoginFails \/ FetchFails THEN 1 ELSE 0)
             /\ (PollLoginSoftSkips \/ mpc = "login") => gauges' = gauges]_vars
    /\ [](/\ pc = "idle" => FailSum(gauges) = 0
          /\ FailSum(gauges) <= faults
          /\ stopOnKlapError => FailSum(gauges) = faults)

C29_Witness ==
    /\ ~stopOnKlapError
    /\ exited = "no"
    /\ FailSum(gauges) = 2
    /\ faults = 3
    /\ Cardinality(DOMAIN gauges["deviceRequestFailedGauge"]) = 2

====
